---------------------------- MODULE Spec2Model ----------------------------
(***************************************************************************)
(* Model of ankisync/anki_db.py: the peewee record classes Col, Notes,     *)
(* Cards and Revlog, their custom field codecs and their pre_save hooks.   *)
(*                                                                         *)
(* A table is the set of its rows.  Model.create(fields) is                   *)
(* save(force_insert=True): the pre_save hook runs on the instance, the    *)
(* field values are encoded (db_value) and one INSERT is executed.         *)
(* instance.save() runs the same hook and then executes one                *)
(* UPDATE ... WHERE id = <the instance's id after the hook>.               *)
(* Only the columns that the hooks read or write are kept in a row; the    *)
(* other columns are copied through unchanged by every operation.          *)
(***************************************************************************)
EXTENDS Integers, Sequences, FiniteSets, TLC

VARIABLES
    col,        \* rows of table col
    notes,      \* rows of table notes
    cards,      \* rows of table cards
    revlog,     \* rows of table revlog
    last,       \* history: what the last completed create()/save() call did
    pc,         \* concurrent writers: position of each writer inside its create()
    winst,      \* concurrent writers: the instance each writer is saving
    wres,       \* concurrent writers: outcome of each writer's last INSERT
    intl        \* concurrent writers: did the other writer step during this create()

vars == <<col, notes, cards, revlog, last, pc, winst, wres, intl>>

---------------------------------------------------------------------------
(* Bounds of the model *)

\* candidate ids supplied by callers are 1..MaxCand
MaxCand == 3
\* creates are accepted while the tables hold fewer than MaxRows rows in all
MaxRows == 3
\* iterations of the id loop that are followed before it is declared divergent
MaxIter == 4
\* number of values the random guid generator is asked for in one hook run
MaxRegen == 2
\* the specifications of one table accept creates while it holds fewer rows
MaxTableRows == 2

---------------------------------------------------------------------------
(* Values *)

\* Python's None / a set attribute
None == <<>>
Some(v) == <<v>>

\* the guids the generator guid64() can return
Guids == {"g1", "g2", "g3"}

\* time() readings, in milliseconds
TimesMs == {1500, 2600}

\* int(time())
IntTime(t) == t \div 1000

\* int(time() * 1000)
IntTimeMs(t) == t

\* the unit separator character 0x1f, one token of a text
US == "US"

\* field contents: a text is a sequence of tokens, markup tokens included
F1 == <<"a">>
F2 == <<"<b>", "a", "</b>">>
F3 == <<"b">>
F4 == <<"[sound:x.mp3]", "b">>

Markup == {"<b>", "</b>", "[sound:x.mp3]"}

---------------------------------------------------------------------------
(* Field codecs *)

RECURSIVE Join(_)
Join(value) ==
    IF Len(value) = 1 THEN value[1]
    ELSE value[1] \o <<US>> \o Join(Tail(value))

\* ListField.db_value: the joined text, or None for an empty list
ListField_db_value(value) ==
    IF value # <<>> THEN Some(Join(value)) ELSE None

RECURSIVE SplitFrom(_, _, _)
SplitFrom(text, i, cur) ==
    IF i > Len(text) THEN <<cur>>
    ELSE IF text[i] = US THEN <<cur>> \o SplitFrom(text, i + 1, <<>>)
    ELSE SplitFrom(text, i + 1, Append(cur, text[i]))

\* ListField.python_value: value.split(unit separator)
ListField_python_value(text) == SplitFrom(text, 1, <<>>)

\* A JSON object is the sequence of its <<key, value>> entries, in the order
\* of the Python dict.  A value is a dict with a 'name' key, a dict without
\* one, or anything that is no dict.
JDict(name) == [isdict |-> TRUE, hasname |-> TRUE, name |-> name]
JBare == [isdict |-> TRUE, hasname |-> FALSE, name |-> ""]
JScalar == [isdict |-> FALSE, hasname |-> FALSE, name |-> ""]

\* the for loop of JSONField.db_value from entry i on: TRUE when it raises
RECURSIVE ScanNames(_, _, _)
ScanNames(value, i, all_names) ==
    IF i > Len(value) THEN FALSE
    ELSE LET v2 == value[i][2]
         IN  IF v2.isdict /\ v2.hasname
             THEN IF v2.name \in all_names THEN TRUE
                  ELSE ScanNames(value, i + 1, all_names \cup {v2.name})
             ELSE ScanNames(value, i + 1, all_names)

Render(v) ==
    IF ~v.isdict THEN <<"0">>
    ELSE IF v.hasname THEN <<"{", "name", v.name, "}">>
    ELSE <<"{", "}">>

Parse(t) ==
    IF t = <<"0">> THEN JScalar
    ELSE IF Len(t) = 4 THEN JDict(t[3])
    ELSE JBare

\* json.dumps
json_dumps(value) == [i \in DOMAIN value |-> <<value[i][1], Render(value[i][2])>>]

\* json.loads
json_loads(text) == [i \in DOMAIN text |-> <<text[i][1], Parse(text[i][2])>>]

JSONField_db_value_unchecked(value) ==
    [raised |-> FALSE, text |-> json_dumps(value)]

\* JSONField.db_value: ValueError('Duplicate name'), or the JSON text
JSONField_db_value(value) ==
    IF ScanNames(value, 1, {}) THEN [raised |-> TRUE, text |-> <<>>]
    ELSE [raised |-> FALSE, text |-> json_dumps(value)]

\* JSONField.python_value
JSONField_python_value(text) == json_loads(text)

---------------------------------------------------------------------------
(* Content fingerprint: ankisync.anki_util *)

IsText(tok) == tok \notin Markup

\* stripHTMLMedia: the text without markup and media references
stripHTMLMedia(text) == SelectSeq(text, IsText)

TokenCode(tok) ==
    CASE tok = "a" -> 97
      [] tok = "b" -> 98
      [] tok = US -> 31
      [] OTHER -> 60

RECURSIVE HashFrom(_, _)
HashFrom(text, h) ==
    IF text = <<>> THEN h
    ELSE HashFrom(Tail(text), (h * 31 + TokenCode(Head(text))) % (2 ^ 16))

\* field_checksum: the first 8 hex digits of the content hash, as an integer
field_checksum(text) == HashFrom(text, 7)

---------------------------------------------------------------------------
(* Storage engine queries used by the hooks *)

Ids(T) == {r.id : r \in T}

get_or_none_blind(T, id) == {}

\* model_class.get_or_none(id=...): the rows with that id (empty: None)
get_or_none(T, id) == {r \in T : r.id = id}

\* model_class.get_or_none(guid=...)
get_or_none_guid(T, guid) == {r \in T : r.guid = guid}

\* model_class.select(fn.Max(model_class.id)).scalar()
select_max_id(T) == CHOOSE m \in Ids(T) : \A x \in Ids(T) : x <= m

---------------------------------------------------------------------------
(* Identifier allocation: the while loop that opens the Notes, Cards and   *)
(* Revlog hooks                                                            *)

NextIdLinear(T, id) == id + 1

NextIdNoIncrement(T, id) == select_max_id(T)

\* the loop body: instance.id = max(id) + 1
NextId(T, id) == select_max_id(T) + 1

RECURSIVE IdLoop(_, _, _, _)
IdLoop(T, id, checks, fuel) ==
    IF fuel = 0 THEN [id |-> id, checks |-> checks, done |-> FALSE]
    ELSE IF get_or_none(T, id) # {}
         THEN IdLoop(T, NextId(T, id), checks + 1, fuel - 1)
         ELSE [id |-> id, checks |-> checks + 1, done |-> TRUE]

AllocateUnchecked(T, id) == [id |-> id, checks |-> 0, done |-> TRUE]

\* while get_or_none(id=instance.id) is not None: instance.id = max + 1
Allocate(T, id) == IdLoop(T, id, 0, MaxIter)

GuidLoopOnce(T, guid, gs) ==
    IF get_or_none_guid(T, guid) = {}
    THEN [guid |-> guid, rest |-> gs, done |-> TRUE]
    ELSE IF gs = <<>> THEN [guid |-> guid, rest |-> gs, done |-> FALSE]
    ELSE [guid |-> Head(gs), rest |-> Tail(gs), done |-> TRUE]

\* while get_or_none(guid=instance.guid) is not None: instance.guid = guid64()
\* gs: the values guid64() returns, in order
RECURSIVE GuidLoop(_, _, _)
GuidLoop(T, guid, gs) ==
    IF get_or_none_guid(T, guid) = {}
    THEN [guid |-> guid, rest |-> gs, done |-> TRUE]
    ELSE IF gs = <<>> THEN [guid |-> guid, rest |-> gs, done |-> FALSE]
    ELSE GuidLoop(T, Head(gs), Tail(gs))

---------------------------------------------------------------------------
(* pre_save hooks.  Each returns the instance as the hook leaves it and    *)
(* how the hook ended: "ok", an exception, or "diverged" when the id loop  *)
(* does not end.  T is the hook's own table at the time of the call.       *)

FingerprintIfUnset(inst) ==
    IF inst.sfld # None /\ inst.csum # None THEN inst
    ELSE LET sfld == stripHTMLMedia(inst.flds[1])
         IN  [inst EXCEPT !.sfld = Some(sfld),
                          !.csum = Some(field_checksum(sfld))]

\* instance.sfld = stripHTMLMedia(instance.flds[0]);
\* instance.csum = field_checksum(instance.sfld)
Fingerprint(inst) ==
    LET sfld == stripHTMLMedia(inst.flds[1])
    IN  [inst EXCEPT !.sfld = Some(sfld),
                     !.csum = Some(field_checksum(sfld))]

\* Notes: id loop, guid loop, mod, sfld, csum
notes_pre_save(T, inst, gs, t) ==
    LET a == Allocate(T, inst.id)
        g == GuidLoop(T, inst.guid, gs)
        i1 == [inst EXCEPT !.id = a.id, !.guid = g.guid,
                           !.mod = Some(IntTimeMs(t))]
    IN  IF ~a.done
        THEN [status |-> "diverged", inst |-> inst, checks |-> a.checks,
              regen |-> TRUE]
        ELSE IF inst.flds = <<>>
        THEN [status |-> "index_error", inst |-> i1, checks |-> a.checks,
              regen |-> g.done /\ g.rest = <<>>]
        ELSE [status |-> "ok", inst |-> Fingerprint(i1),
              checks |-> a.checks,
              regen |-> g.done /\ g.rest = <<>>]

\* if instance.due is None: instance.due = instance.nid
DefaultDue(inst) ==
    IF inst.due = None THEN [inst EXCEPT !.due = Some(inst.nid)] ELSE inst

\* Cards: id loop, mod, default of due
cards_pre_save(T, inst, t) ==
    LET a == Allocate(T, inst.id)
    IN  IF ~a.done
        THEN [status |-> "diverged", inst |-> inst, checks |-> a.checks]
        ELSE [status |-> "ok",
              inst |-> DefaultDue([inst EXCEPT !.id = a.id,
                                               !.mod = Some(IntTime(t))]),
              checks |-> a.checks]

\* Revlog: id loop
revlog_pre_save(T, inst) ==
    LET a == Allocate(T, inst.id)
    IN  IF ~a.done
        THEN [status |-> "diverged", inst |-> inst, checks |-> a.checks]
        ELSE [status |-> "ok", inst |-> [inst EXCEPT !.id = a.id],
              checks |-> a.checks]

---------------------------------------------------------------------------
(* Rows written for an instance: each field through its db_value *)

NotesRow(inst) ==
    [id |-> inst.id, guid |-> inst.guid, mod |-> inst.mod,
     flds |-> ListField_db_value(inst.flds),
     sfld |-> inst.sfld, csum |-> inst.csum]

CardsRow(inst) ==
    [id |-> inst.id, nid |-> inst.nid, mod |-> inst.mod, due |-> inst.due]

RevlogRow(inst) == [id |-> inst.id, cid |-> inst.cid]

---------------------------------------------------------------------------
(* Storage engine writes.  INSERT is refused for a primary key that is     *)
(* present; the table notes also refuses a guid that is present.           *)

Insert(T, row) ==
    IF row.id \in Ids(T)
    THEN [table |-> T, result |-> "pk_violation", rows |-> 0]
    ELSE [table |-> T \cup {row}, result |-> "ok", rows |-> 1]

NotesInsert(T, row) ==
    IF row.id \in Ids(T)
    THEN [table |-> T, result |-> "pk_violation", rows |-> 0]
    ELSE IF get_or_none_guid(T, row.guid) # {}
    THEN [table |-> T, result |-> "guid_violation", rows |-> 0]
    ELSE [table |-> T \cup {row}, result |-> "ok", rows |-> 1]

\* UPDATE ... SET <all other columns> WHERE id = row.id
Update(T, row) ==
    LET hit == get_or_none(T, row.id)
    IN  IF hit = {} THEN [table |-> T, result |-> "ok", rows |-> 0]
        ELSE [table |-> (T \ hit) \cup {row}, result |-> "ok", rows |-> 1]

NotesUpdate(T, row) ==
    LET hit == get_or_none(T, row.id)
    IN  IF hit = {} THEN [table |-> T, result |-> "ok", rows |-> 0]
        ELSE IF get_or_none_guid(T \ hit, row.guid) # {}
        THEN [table |-> T, result |-> "guid_violation", rows |-> 0]
        ELSE [table |-> (T \ hit) \cup {row}, result |-> "ok", rows |-> 1]

---------------------------------------------------------------------------
(* Single writer: one action is one whole create() or save() call *)

Writers == {1, 2}

Idle == [w \in Writers |-> "idle"]

NoLast ==
    [op |-> "none", result |-> "ok", cand |-> None, inst |-> None,
     gs |-> <<>>, checks |-> 0, before |-> {}, rows |-> 0]

\* a call whose id loop never ends never returns: nothing follows it
Running == last.result # "diverged"

Record(op, cand, gs, h, w, before) ==
    [op |-> op, gs |-> gs,
     result |-> IF h.status = "ok" THEN w.result ELSE h.status,
     cand |-> cand, inst |-> h.inst, checks |-> h.checks,
     before |-> before, rows |-> IF h.status = "ok" THEN w.rows ELSE 0]

\* rows held by the three tables with allocated ids
TotalRows == Cardinality(notes) + Cardinality(cards) + Cardinality(revlog)

\* Notes.create(...) when force_insert, instance.save() otherwise
NotesSave(inst, gs, t, force_insert) ==
    /\ Running
    /\ force_insert => TotalRows < MaxRows
    /\ \E h \in {notes_pre_save(notes, inst, gs, t)} :
         /\ h.regen
         /\ \E w \in {IF force_insert THEN NotesInsert(notes, NotesRow(h.inst))
                      ELSE NotesUpdate(notes, NotesRow(h.inst))} :
              /\ notes' = IF h.status = "ok" THEN w.table ELSE notes
              /\ last' = Record(IF force_insert THEN "notes_create"
                                ELSE "notes_save", inst, gs, h, w, notes)
    /\ UNCHANGED <<col, cards, revlog, pc, winst, wres, intl>>

\* Cards.create(...) when force_insert, instance.save() otherwise
CardsSave(inst, t, force_insert) ==
    /\ Running
    /\ force_insert => TotalRows < MaxRows
    /\ \E h \in {cards_pre_save(cards, inst, t)} :
         \E w \in {IF force_insert THEN Insert(cards, CardsRow(h.inst))
                   ELSE Update(cards, CardsRow(h.inst))} :
              /\ cards' = IF h.status = "ok" THEN w.table ELSE cards
              /\ last' = Record(IF force_insert THEN "cards_create"
                                ELSE "cards_save", inst, <<>>, h, w, cards)
    /\ UNCHANGED <<col, notes, revlog, pc, winst, wres, intl>>

\* Revlog.create(...) when force_insert, instance.save() otherwise
RevlogSave(inst, force_insert) ==
    /\ Running
    /\ force_insert => TotalRows < MaxRows
    /\ \E h \in {revlog_pre_save(revlog, inst)} :
         \E w \in {IF force_insert THEN Insert(revlog, RevlogRow(h.inst))
                   ELSE Update(revlog, RevlogRow(h.inst))} :
              /\ revlog' = IF h.status = "ok" THEN w.table ELSE revlog
              /\ last' = Record(IF force_insert THEN "revlog_create"
                                ELSE "revlog_save", inst, <<>>, h, w, revlog)
    /\ UNCHANGED <<col, notes, cards, pc, winst, wres, intl>>

Init ==
    /\ col = {}
    /\ notes = {}
    /\ cards = {}
    /\ revlog = {}
    /\ last = NoLast
    /\ pc = Idle
    /\ winst = [w \in Writers |-> None]
    /\ wres = [w \in Writers |-> "none"]
    /\ intl = [w \in Writers |-> FALSE]

---------------------------------------------------------------------------
(* Spec: identifier allocation in the three tables with time-derived ids.  *)
(* Callers supply any candidate id; a note's guid is left to its default,  *)
(* a guid64() value that no row holds; the remaining fields are held at    *)
(* one value.                                                              *)

CandIds == 1 .. MaxCand

GuidSeqs == UNION {[1 .. n -> Guids] : n \in 0 .. MaxRegen}

T0 == CHOOSE t \in TimesMs : \A u \in TimesMs : t <= u

IdNotes ==
    {[id |-> i, guid |-> g, mod |-> None, flds |-> <<F1, F3>>,
      sfld |-> None, csum |-> None] : i \in CandIds, g \in Guids}

IdCards ==
    {[id |-> i, nid |-> 1, mod |-> None, due |-> None] : i \in CandIds}

IdRevlog == {[id |-> i, cid |-> 1] : i \in CandIds}

FreshGuid(inst) == get_or_none_guid(notes, inst.guid) = {}

NotesCreateId ==
    \E inst \in IdNotes : FreshGuid(inst) /\ NotesSave(inst, <<>>, T0, TRUE)

NotesSaveId ==
    \E inst \in IdNotes : FreshGuid(inst) /\ NotesSave(inst, <<>>, T0, FALSE)

CardsCreateId == \E inst \in IdCards : CardsSave(inst, T0, TRUE)

CardsSaveId == \E inst \in IdCards : CardsSave(inst, T0, FALSE)

RevlogCreateId == \E inst \in IdRevlog : RevlogSave(inst, TRUE)

RevlogSaveId == \E inst \in IdRevlog : RevlogSave(inst, FALSE)

Next ==
    \/ NotesCreateId
    \/ NotesSaveId
    \/ CardsCreateId
    \/ CardsSaveId
    \/ RevlogCreateId
    \/ RevlogSaveId

Spec == Init /\ [][Next]_vars

---------------------------------------------------------------------------
(* SpecNotes: the content of notes.  Creates supply any candidate id, any  *)
(* field list and, or not, values of their own for sfld and csum.  An      *)
(* update loads a stored note, replaces its field list and saves it.       *)

\* Notes.get(id=r.id): the instance of a stored row
NotesInstance(r) ==
    [id |-> r.id, guid |-> r.guid, mod |-> r.mod,
     flds |-> ListField_python_value(r.flds[1]),
     sfld |-> r.sfld, csum |-> r.csum]

FldsInputs == {<<>>, <<F1, F3>>, <<F2>>, <<F4, F1>>}

\* sfld and csum as the caller sets them: left unset, or set to other values
CallerFingerprints ==
    {[sfld |-> None, csum |-> None], [sfld |-> Some(F3), csum |-> Some(0)]}

ContentNotes ==
    {[id |-> i, guid |-> g, mod |-> None, flds |-> f,
      sfld |-> c.sfld, csum |-> c.csum] :
        i \in CandIds, g \in Guids, f \in FldsInputs, c \in CallerFingerprints}

NotesCreateContent ==
    /\ Cardinality(notes) < MaxTableRows
    /\ \E inst \in ContentNotes :
         FreshGuid(inst) /\ NotesSave(inst, <<>>, T0, TRUE)

\* one value of guid64(): the stored row holds the instance's guid
OneGuid == {<<g>> : g \in Guids}

NotesUpdateContent ==
    \E r \in notes, f \in FldsInputs, gs \in OneGuid :
        NotesSave([NotesInstance(r) EXCEPT !.flds = f], gs, T0, FALSE)

NextNotes ==
    \/ NotesCreateContent
    \/ NotesUpdateContent

SpecNotes == Init /\ [][NextNotes]_vars

---------------------------------------------------------------------------
(* SpecGuid: the guids of notes.  Creates and saves supply any candidate   *)
(* id and guid, and guid64() returns any guids, used ones included.        *)

GuidNotes ==
    {[id |-> i, guid |-> g, mod |-> None, flds |-> <<F1>>,
      sfld |-> None, csum |-> None] : i \in CandIds, g \in Guids}

\* the runs of guid64() on which the guid loop ends, having used them all
RegenRuns(guid) ==
    {gs \in GuidSeqs : GuidLoop(notes, guid, gs).rest = <<>>
                       /\ GuidLoop(notes, guid, gs).done}

NotesCreateGuid ==
    /\ Cardinality(notes) < MaxTableRows
    /\ \E inst \in GuidNotes :
         \E gs \in RegenRuns(inst.guid) : NotesSave(inst, gs, T0, TRUE)

NotesSaveGuid ==
    \E inst \in GuidNotes :
        \E gs \in RegenRuns(inst.guid) : NotesSave(inst, gs, T0, FALSE)

NextGuid ==
    \/ NotesCreateGuid
    \/ NotesSaveGuid

SpecGuid == Init /\ [][NextGuid]_vars

---------------------------------------------------------------------------
(* SpecCards: the content of cards.  Creates supply any candidate id, note *)
(* id and due, due unset included; an update loads a stored card, sets its *)
(* due and saves it.                                                       *)

Nids == {7, 12345}

Dues == {None, Some(9)}

\* Cards.get(id=r.id): the instance of a stored row
CardsInstance(r) == [id |-> r.id, nid |-> r.nid, mod |-> r.mod, due |-> r.due]

ContentCards ==
    {[id |-> i, nid |-> n, mod |-> None, due |-> d] :
        i \in CandIds, n \in Nids, d \in Dues}

CardsCreateContent ==
    /\ Cardinality(cards) < MaxTableRows
    /\ \E inst \in ContentCards : CardsSave(inst, T0, TRUE)

CardsUpdateContent ==
    \E r \in cards, d \in Dues, t \in TimesMs :
        CardsSave([CardsInstance(r) EXCEPT !.due = d], t, FALSE)

NextCards ==
    \/ CardsCreateContent
    \/ CardsUpdateContent

SpecCards == Init /\ [][NextCards]_vars

---------------------------------------------------------------------------
(* SpecCol: the table col.  A create supplies the default id 1 or an id of *)
(* its own, and one of the JSON columns; an update loads the stored row,   *)
(* sets one JSON column and saves it.                                      *)

JsonCols == {"conf", "models", "decks", "dconf", "tags"}

\* Col(id=...): id defaults to 1
ColIds == {1, 2}

\* distinct names, among a dict without a name and a value that is no dict
DefaultJson ==
    <<<<"1", JDict("A")>>, <<"2", JBare>>, <<"3", JScalar>>,
      <<"4", JBare>>, <<"5", JDict("B")>>>>

JsonInputs ==
    {DefaultJson,
     <<<<"1", JDict("A")>>, <<"2", JDict("B")>>, <<"3", JDict("A")>>>>,
     <<<<"1", JScalar>>, <<"2", JDict("B")>>, <<"3", JDict("B")>>>>}

DefaultCol(id) ==
    [id |-> id, mod |-> None, conf |-> DefaultJson, models |-> DefaultJson,
     decks |-> DefaultJson, dconf |-> DefaultJson, tags |-> DefaultJson]

\* Col.get(id=r.id): the instance of a stored row
ColInstance(r) ==
    [id |-> r.id, mod |-> r.mod,
     conf |-> JSONField_python_value(r.conf),
     models |-> JSONField_python_value(r.models),
     decks |-> JSONField_python_value(r.decks),
     dconf |-> JSONField_python_value(r.dconf),
     tags |-> JSONField_python_value(r.tags)]

\* Col: instance.mod = int(time())
col_pre_save(inst, t) == [inst EXCEPT !.mod = Some(IntTime(t))]

\* the row written for a Col instance, each JSON column through db_value
ColRow(inst) ==
    [raised |-> \E c \in JsonCols : JSONField_db_value(inst[c]).raised,
     row |-> [id |-> inst.id, mod |-> inst.mod,
              conf |-> JSONField_db_value(inst.conf).text,
              models |-> JSONField_db_value(inst.models).text,
              decks |-> JSONField_db_value(inst.decks).text,
              dconf |-> JSONField_db_value(inst.dconf).text,
              tags |-> JSONField_db_value(inst.tags).text]]

\* Col.create(...) when force_insert, instance.save() otherwise
ColSave(inst, t, force_insert) ==
    /\ Running
    /\ \E h \in {col_pre_save(inst, t)} :
         \E e \in {ColRow(h)} :
           \E w \in {IF force_insert THEN Insert(col, e.row)
                     ELSE Update(col, e.row)} :
              /\ col' = IF e.raised THEN col ELSE w.table
              /\ last' = [op |-> IF force_insert THEN "col_create"
                                 ELSE "col_save",
                          gs |-> <<>>,
                          result |-> IF e.raised THEN "duplicate_name"
                                     ELSE w.result,
                          cand |-> inst, inst |-> h, checks |-> 0,
                          before |-> col,
                          rows |-> IF e.raised THEN 0 ELSE w.rows]
    /\ UNCHANGED <<notes, cards, revlog, pc, winst, wres, intl>>

ColCreate ==
    \E id \in ColIds, c \in JsonCols, v \in JsonInputs, t \in TimesMs :
        ColSave([DefaultCol(id) EXCEPT ![c] = v], t, TRUE)

ColUpdate ==
    \E r \in col, c \in JsonCols, v \in JsonInputs, t \in TimesMs :
        ColSave([ColInstance(r) EXCEPT ![c] = v], t, FALSE)

NextCol ==
    \/ ColCreate
    \/ ColUpdate

SpecCol == Init /\ [][NextCol]_vars

---------------------------------------------------------------------------
(* SpecConc: two writers create records in cards and revlog through one    *)
(* database.  Each query and each INSERT of a create is one step, and the  *)
(* steps of the two writers interleave: nothing in the hooks opens a       *)
(* transaction or takes a lock.                                            *)

ConcTables == {"cards", "revlog"}

TableOf(name) == IF name = "cards" THEN cards ELSE revlog

\* a step of writer w that reads or writes the database falls inside the
\* create of the other writer when that one is under way
Interleave(w) ==
    [v \in Writers |-> IF v # w /\ pc[v] # "idle" THEN TRUE ELSE intl[v]]

\* Cards.create(id=cand) or Revlog.create(id=cand): the instance is built
Begin(w, name, cand) ==
    /\ pc[w] = "idle"
    /\ Cardinality(TableOf(name)) < MaxTableRows
    /\ pc' = [pc EXCEPT ![w] = "check"]
    /\ winst' = [winst EXCEPT ![w] =
                   [table |-> name, cand |-> cand,
                    inst |-> IF name = "cards"
                             THEN [id |-> cand, nid |-> 1, mod |-> None,
                                   due |-> None]
                             ELSE [id |-> cand, cid |-> 1]]]
    /\ wres' = [wres EXCEPT ![w] = "none"]
    /\ intl' = [intl EXCEPT ![w] = FALSE]
    /\ UNCHANGED <<col, notes, cards, revlog, last>>

\* the loop condition finds a row: the loop body is entered
CheckTaken(w) ==
    /\ pc[w] = "check"
    /\ get_or_none(TableOf(winst[w].table), winst[w].inst.id) # {}
    /\ pc' = [pc EXCEPT ![w] = "max"]
    /\ intl' = Interleave(w)
    /\ UNCHANGED <<col, notes, cards, revlog, last, winst, wres>>

\* the loop condition finds no row: the hook runs to its end
CheckFree(w) ==
    /\ pc[w] = "check"
    /\ get_or_none(TableOf(winst[w].table), winst[w].inst.id) = {}
    /\ pc' = [pc EXCEPT ![w] = "insert"]
    /\ winst' = [winst EXCEPT ![w].inst =
                   IF winst[w].table = "cards"
                   THEN DefaultDue([@ EXCEPT !.mod = Some(IntTime(T0))])
                   ELSE @]
    /\ intl' = Interleave(w)
    /\ UNCHANGED <<col, notes, cards, revlog, last, wres>>

\* the loop body: instance.id = max(id) + 1
TakeMax(w) ==
    /\ pc[w] = "max"
    /\ pc' = [pc EXCEPT ![w] = "check"]
    /\ winst' = [winst EXCEPT ![w].inst.id =
                   NextId(TableOf(winst[w].table), @)]
    /\ intl' = Interleave(w)
    /\ UNCHANGED <<col, notes, cards, revlog, last, wres>>

\* the INSERT that follows the hook
InsertRow(w) ==
    /\ pc[w] = "insert"
    /\ \E r \in {IF winst[w].table = "cards"
                 THEN Insert(cards, CardsRow(winst[w].inst))
                 ELSE Insert(revlog, RevlogRow(winst[w].inst))} :
         /\ cards' = IF winst[w].table = "cards" THEN r.table ELSE cards
         /\ revlog' = IF winst[w].table = "revlog" THEN r.table ELSE revlog
         /\ wres' = [wres EXCEPT ![w] = r.result]
    /\ pc' = [pc EXCEPT ![w] = "idle"]
    /\ intl' = Interleave(w)
    /\ UNCHANGED <<col, notes, last, winst>>

NextConc ==
    \E w \in Writers :
        \/ \E name \in ConcTables, cand \in CandIds : Begin(w, name, cand)
        \/ CheckTaken(w)
        \/ CheckFree(w)
        \/ TakeMax(w)
        \/ InsertRow(w)

SpecConc == Init /\ [][NextConc]_vars

---------------------------------------------------------------------------
(* Claims about identifier allocation, checked under Spec *)

CreateOps == {"notes_create", "cards_create", "revlog_create"}

HookOps == CreateOps \cup {"notes_save", "cards_save", "revlog_save"}

UniqueIds(T) == \A r1 \in T, r2 \in T : r1.id = r2.id => r1 = r2

\* C1: under a single writer, the id that the pre-save hook leaves on a
\* record being created is absent from its table when the hook finishes, so
\* no create is rejected for a primary-key collision, whatever candidate ids
\* the callers supply, and no two rows of notes, cards or revlog share an id.
C1_CreatedIdsNeverCollide ==
    /\ last.op \in CreateOps =>
         /\ last.result # "diverged"
         /\ last.inst.id \notin Ids(last.before)
         /\ last.result # "pk_violation"
         /\ last.rows = 1
    /\ UniqueIds(notes)
    /\ UniqueIds(cards)
    /\ UniqueIds(revlog)

\* a create whose candidate id was held by a row went through, in a table
\* that already held two rows
C1_Witness ==
    /\ last.op = "cards_create"
    /\ last.cand.id \in Ids(last.before)
    /\ Cardinality(last.before) = 2
    /\ last.result = "ok"
    /\ Cardinality(cards) = 3

\* the table of the allocator example: rows with ids 5, 6 and 7
Example567 == {[id |-> i] : i \in {5, 6, 7}}

\* C2: the allocator returns the candidate unchanged when no row of the
\* table has that id, and otherwise the greatest id of the table plus one
\* (an id above every id of the table whose predecessor is in the table),
\* not the candidate plus one; for ids {5,6,7} and candidate 5 it returns 8.
C2_CandidateOrMaxPlusOne ==
    /\ last.op \in HookOps =>
         IF last.cand.id \notin Ids(last.before)
         THEN last.inst.id = last.cand.id
         ELSE /\ \A x \in Ids(last.before) : last.inst.id > x
              /\ last.inst.id - 1 \in Ids(last.before)
    /\ Allocate(Example567, 5).id = 8
    /\ Allocate(Example567, 4).id = 4

\* the candidate collided and the allocator jumped past a gap: the result is
\* neither the candidate nor the candidate plus one
C2_Witness ==
    /\ last.op = "notes_create"
    /\ last.result = "ok"
    /\ last.cand.id \in Ids(last.before)
    /\ last.inst.id > last.cand.id + 1
    /\ last.cand.id + 1 \notin Ids(last.before)

\* C10: under a single writer the id loop of the Notes, Cards and Revlog
\* hooks ends for every table and candidate after at most two existence
\* checks, that is at most one reassignment, and it ends only on an id that
\* no row of the table holds.
C10_IdLoopEndsInTwoChecks ==
    last.op \in HookOps =>
        /\ last.result # "diverged"
        /\ last.checks \in {1, 2}
        /\ last.checks = 2 <=> last.cand.id \in Ids(last.before)
        /\ last.inst.id \notin Ids(last.before)

\* a hook ran on a full table whose lowest id was the candidate and needed
\* the second check
C10_Witness ==
    /\ last.op = "revlog_save"
    /\ Cardinality(last.before) = 3
    /\ \A x \in Ids(last.before) : last.cand.id <= x
    /\ last.checks = 2

---------------------------------------------------------------------------
(* Claims about notes, checked under SpecNotes and SpecGuid *)

NotesOps == {"notes_create", "notes_save"}

\* flds[0] of a stored row, as ListField.python_value decodes the column
FirstField(r) == Head(ListField_python_value(r.flds[1]))

\* C3: every stored note has sfld = stripHTMLMedia(flds[0]) and
\* csum = field_checksum(sfld); the hook computes both on every create and
\* save from the first field and overwrites what the caller had set, so two
\* notes whose first fields strip to the same text have the same csum.
C3_FingerprintOfFirstField ==
    /\ \A r \in notes :
         /\ r.flds # None
         /\ r.sfld = Some(stripHTMLMedia(FirstField(r)))
         /\ r.csum = Some(field_checksum(stripHTMLMedia(FirstField(r))))
    /\ \A r1 \in notes, r2 \in notes :
         stripHTMLMedia(FirstField(r1)) = stripHTMLMedia(FirstField(r2))
             => r1.csum = r2.csum
    /\ (last.op \in NotesOps /\ last.result = "ok") =>
         /\ last.inst.sfld = Some(stripHTMLMedia(last.cand.flds[1]))
         /\ last.inst.csum = Some(field_checksum(last.inst.sfld[1]))

\* a note created with sfld and csum set by the caller is stored beside a
\* note with another first field that strips to the same text
C3_Witness ==
    /\ last.op = "notes_create"
    /\ last.result = "ok"
    /\ last.cand.sfld = Some(F3)
    /\ \E r1 \in notes, r2 \in notes :
         /\ r1.id = last.inst.id
         /\ r1.sfld # Some(F3)
         /\ FirstField(r1) # FirstField(r2)
         /\ r1.csum = r2.csum

NoteGuids(T) == {r.guid : r \in T}

\* C4: after any sequence of note creates and saves, whatever candidate
\* guids they carry and however often guid64() returns a guid in use, no two
\* stored notes share a guid: the guid the hook leaves is held by no row, and
\* no write is refused for its guid.
C4_GuidsUnique ==
    /\ \A r1 \in notes, r2 \in notes : r1.guid = r2.guid => r1 = r2
    /\ last.op \in NotesOps =>
         /\ last.result = "ok"
         /\ last.inst.guid \notin NoteGuids(last.before)

\* a create whose candidate guid was in use, and for which guid64() first
\* returned a guid in use, was stored
C4_Witness ==
    /\ last.op = "notes_create"
    /\ last.result = "ok"
    /\ last.cand.guid \in NoteGuids(last.before)
    /\ Len(last.gs) = 2
    /\ last.gs[1] \in NoteGuids(last.before)
    /\ Cardinality(notes) = 2

\* C8: saving a stored note, whose id and guid no other row holds, keeps its
\* id and guid, leaves the number of rows as it was and writes the changed
\* fields to its row.
C8_UpdateKeepsIdentity ==
    (/\ last.op = "notes_save"
     /\ last.result = "ok"
     /\ last.cand.id \in Ids(last.before)) =>
        /\ last.inst.id = last.cand.id
        /\ last.inst.guid = last.cand.guid
        /\ Cardinality(notes) = Cardinality(last.before)
        /\ last.rows = 1
        /\ \E r \in notes : /\ r.id = last.cand.id
                            /\ r.flds = ListField_db_value(last.cand.flds)

---------------------------------------------------------------------------
(* Claims about cards, checked under SpecCards *)

CardsOps == {"cards_create", "cards_save"}

\* due as the hook must leave it for the instance the caller saved
ExpectedDue(cand) == IF cand.due = None THEN Some(cand.nid) ELSE cand.due

\* C5: saving a card whose due is unset stores due equal to the card's nid,
\* and saving a card whose due is set stores the due supplied: after every
\* create or save of a card, the card's row holds that due.
C5_SavePersistsDue ==
    last.op \in CardsOps =>
        \E r \in cards : /\ r.id \in {last.cand.id, last.inst.id}
                         /\ r.nid = last.cand.nid
                         /\ r.due = ExpectedDue(last.cand)

\* what the Cards hook does hold to: it leaves due equal to nid when due was
\* unset and as supplied otherwise, every row a save writes holds that due
\* (nid 12345 and due unset give due 12345), and no stored due is null
CardsHookLeavesDue ==
    /\ last.op \in CardsOps =>
         /\ last.result = "ok"
         /\ last.inst.due = ExpectedDue(last.cand)
         /\ last.rows = 1 =>
              \E r \in cards : /\ r.id = last.inst.id
                               /\ r.nid = last.cand.nid
                               /\ r.due = ExpectedDue(last.cand)
    /\ \A r \in cards : r.due # None

---------------------------------------------------------------------------
(* Claims about col, checked under SpecCol *)

ColOps == {"col_create", "col_save"}

\* two entries of the object are dicts with the same 'name'
HasDuplicateName(value) ==
    \E i \in DOMAIN value, j \in DOMAIN value :
        /\ i # j
        /\ value[i][2].isdict /\ value[i][2].hasname
        /\ value[j][2].isdict /\ value[j][2].hasname
        /\ value[i][2].name = value[j][2].name

\* C6: once a Collection has been created the table col holds exactly one
\* row, whatever creates and saves follow; a save of the stored record sets
\* mod on its row, keeps its id and adds no row.
C6_ExactlyOneRow ==
    /\ Cardinality(col) <= 1
    /\ (last.op \in ColOps /\ last.before # {}) => Cardinality(col) = 1
    /\ (last.op = "col_save" /\ last.result = "ok" /\ last.before # {}) =>
         /\ last.inst.id = last.cand.id
         /\ \E r \in col : r.id = last.cand.id /\ r.mod = last.inst.mod

\* C7: a Collection create or save in which conf, models, decks, dconf or
\* tags holds two dict entries with the same name fails with the
\* duplicate-name error and leaves the table as it was; when the named
\* entries of every column have distinct names no such error is raised.
C7_DuplicateNameAbortsWrite ==
    last.op \in ColOps =>
        IF \E c \in JsonCols : HasDuplicateName(last.cand[c])
        THEN /\ last.result = "duplicate_name"
             /\ last.rows = 0
             /\ col = last.before
        ELSE /\ last.result # "duplicate_name"
             /\ last.op = "col_save" => last.rows = 1

\* a save of the stored Collection at a later time, with a duplicate name in
\* one column, failed and left the stored row and its mod as they were
C7_Witness ==
    /\ last.op = "col_save"
    /\ last.result = "duplicate_name"
    /\ HasDuplicateName(last.cand.decks)
    /\ \E r \in col : r.id = last.cand.id /\ r.mod # last.inst.mod
    /\ col = last.before

---------------------------------------------------------------------------
(* Claims about concurrent writers, checked under SpecConc *)

\* both hooks have finished, on the same table and with the same id
BothHooksDoneSameId ==
    /\ pc[1] = "insert"
    /\ pc[2] = "insert"
    /\ winst[1].table = winst[2].table
    /\ winst[1].inst.id = winst[2].inst.id

\* C9: the existence check of the id loop and the INSERT are not atomic.
\* With two writers whose steps interleave, both hooks can finish with the
\* same id and one INSERT is then refused for its primary key; a create
\* inside which the other writer took no step is never refused, and two
\* hooks never stand finished with the same id unless their steps
\* interleaved.
C9_CollisionOnlyWhenInterleaved ==
    /\ \A w \in Writers : wres[w] = "pk_violation" => intl[w]
    /\ BothHooksDoneSameId => (intl[1] \/ intl[2])

\* both writers replaced a colliding candidate by the same max + 1, the
\* INSERT of the first went through and the INSERT of the second was refused
C9_Witness ==
    /\ wres[1] = "ok"
    /\ wres[2] = "pk_violation"
    /\ pc = Idle
    /\ winst[1].table = "revlog"
    /\ winst[2].table = "revlog"
    /\ winst[1].inst.id = winst[2].inst.id
    /\ winst[1].inst.id # winst[1].cand
    /\ winst[2].inst.id # winst[2].cand

=============================================================================
